---- MODULE Spec2Model ----
(***************************************************************************)
(* Model of UserMemoryManager (src/groq_memory_manager.py): the per-user   *)
(* chunk store, its size-budget eviction, retrieval, and persistence.      *)
(*                                                                         *)
(* Strings whose characters matter (contents, file texts, user ids, file   *)
(* names) are sequences of one-character strings.  An optional argument    *)
(* (Python None or a value) is <<>> or <<v>>.  Chunk ids stand for uuid4   *)
(* values: they are only ever compared for equality, so a new id is the    *)
(* smallest number no live reference (collection or index) holds.          *)
(* Chunk metadata is never read by any operation modelled here and is left *)
(* out of the chunk record.                                                *)
(***************************************************************************)
EXTENDS Integers, Sequences, FiniteSets, TLC

(* ------------------------------ bounds -------------------------------- *)
\* budgets tried at construction are MaxBudget - 1 and MaxBudget bytes
MaxBudget == 2
\* contents passed to add_memory_chunk have 0..MaxLen characters
MaxLen == 2
\* time.time() yields values in 1..MaxTime
MaxTime == 2
\* a call is explored when it leaves at most MaxChunks chunks in the store
\* and at most MaxChunks ids in the index
MaxChunks == 2
\* max_chunks arguments tried are 0, 1 and MaxRetrieve
MaxRetrieve == 2
\* texts given to split_memory_content have at most MaxText characters
MaxText == 5
\* max_chunk_size arguments tried are 1..MaxChunkSize
MaxChunkSize == 3
\* messages handled, each by a generate_response coroutine of its own
MaxCoroutines == 2
\* stand-in for max_reasoning_steps (10) of the bot's ChainOfThoughtsSystem
MaxReasoningSteps == 2
\* stand-in for the default max_chunk_size (4000) of split_memory_content
DefaultMaxChunkSize == 2
MessageLimit == 2
MaxResearchTime == 3
RetentionDays == 1
MemorySize == 2
MaxContext == 3
MaxTokens == 14

(* --------------------------- input domains ---------------------------- *)
Budgets == {MaxBudget - 1, MaxBudget}
UserIds == {<<"a">>, <<"a", "_", "b">>}
Categories == {"default", ""}
None == <<>>
Some(v) == <<v>>
Char(i) == IF i % 2 = 1 THEN "x" ELSE "y"
ContentOfLen(n) == [i \in 1..n |-> Char(i)]
Contents == {ContentOfLen(n) : n \in 0..MaxLen}
Texts == {<<>>, <<"x", " ", "y">>, <<"x", "x", "x">>}
\* arguments of split_memory_content: every text of at most MaxText
\* characters over two letters and the space, and the text "a b c d e"
SplitAlphabet == {"x", "y", " "}
ExampleText == <<"a", " ", "b", " ", "c", " ", "d", " ", "e">>
SplitTexts == UNION {[1..n -> SplitAlphabet] : n \in 0..MaxText} \cup {ExampleText}
ChunkSizes == 1..MaxChunkSize

\* names in storage_dir: the state-file suffix and the log file __init__ opens
FileSuffix == <<"_", "m", "e", "m", "o", "r", "y", "_", "s", "t", "a", "t", "e",
                ".", "j", "s", "o", "n">>
LogFile == <<"m", "e", "m", "o", "r", "y", "_", "m", "a", "n", "a", "g", "e", "r",
             ".", "l", "o", "g">>

VARIABLES
    max_bytes,      \* self.max_total_memory_mb * 1024 * 1024
    user_memories,  \* self.user_memories: user id -> list of chunks
    memory_index,   \* self.memory_index: user id -> category -> list of ids
    disk,           \* storage_dir: file name -> the file's contents
    now,            \* last value read from time.time()
    last,           \* the last call: its arguments, result and exception
    writer,         \* the save_memory_state call in progress, if any
    adding,         \* per thread: the add_memory_chunk call in progress, if any
    retry,          \* the call_groq_ai / perform_web_search call in progress
    user_memory,    \* DiscordBot.user_memory: user id -> list of messages
    typing_tasks,   \* TypingManager._typing_tasks: channel id -> typing task
    typing_loops,   \* the typing tasks created so far: task -> its state
    reasoning_history, \* ChainOfThoughtsSystem.reasoning_history
    tasks,          \* the generate_response calls in progress
    research_memory \* AdvancedWebSearcher.comprehensive_research_memory

\* the state of the memory store, and the state of the Discord bot
store_vars == <<max_bytes, user_memories, memory_index, disk, now, writer, adding>>
bot_vars == <<retry, user_memory, typing_tasks, typing_loops, reasoning_history, tasks,
              research_memory>>

vars == <<max_bytes, user_memories, memory_index, disk, now, last, writer, adding,
          retry, user_memory, typing_tasks, typing_loops, reasoning_history, tasks,
          research_memory>>

(* ------------------------------ helpers ------------------------------- *)
Range(s) == {s[i] : i \in 1..Len(s)}

\* Python truthiness of an optional number / optional string
TruthyNum(opt) == opt # None /\ opt[1] # 0
TruthyStr(opt) == opt # None /\ opt[1] # ""

RECURSIVE SumSize(_)
SumSize(chunks) ==
    IF chunks = <<>> THEN 0 ELSE Head(chunks).size + SumSize(Tail(chunks))

\* dict.get(user_id, [])
GetChunks(mem, u) == IF u \in DOMAIN mem THEN mem[u] ELSE <<>>

\* d[k] = v on a dict whose keys all share one value object
DictSetAll(d, k, v) == [x \in DOMAIN d \cup {k} |-> v]

\* d[k] = v on a dict
DictSet(d, k, v) == [x \in DOMAIN d \cup {k} |-> IF x = k THEN v ELSE d[x]]

AllChunks(mem) == UNION {Range(mem[u]) : u \in DOMAIN mem}
IndexIds(idx) == UNION {UNION {Range(idx[u][c]) : c \in DOMAIN idx[u]} : u \in DOMAIN idx}
UsedIds(mem, idx) == {c.id : c \in AllChunks(mem)} \cup IndexIds(idx)

\* uuid4(): the k-th new id, distinct from every id in used
RECURSIVE NewId(_, _)
NewId(used, k) ==
    LET m == CHOOSE i \in 1..(Cardinality(used) + 1) : i \notin used
    IN IF k = 1 THEN m ELSE NewId(used \cup {m}, k - 1)

TotalChunks(mem) == Cardinality(AllChunks(mem))

\* MemoryChunk.__init__: timestamp or time.time()
MemoryChunk(id, content, timestamp, category, clock) ==
    [id        |-> id,
     content   |-> content,
     timestamp |-> IF TruthyNum(timestamp) THEN timestamp[1] ELSE clock,
     category  |-> category,
     size      |-> Len(content)]

\* sorted(chunks, key=timestamp): stable, ascending
RECURSIVE InsertAsc(_, _)
InsertAsc(c, s) ==
    IF s = <<>> THEN <<c>>
    ELSE IF Head(s).timestamp <= c.timestamp
         THEN <<Head(s)>> \o InsertAsc(c, Tail(s))
         ELSE <<c>> \o s

RECURSIVE SortedByTimestamp(_)
SortedByTimestamp(s) ==
    IF s = <<>> THEN <<>>
    ELSE InsertAsc(s[Len(s)], SortedByTimestamp(SubSeq(s, 1, Len(s) - 1)))

\* list.remove(chunk): chunks compare by identity, ids are unique
RemoveChunk(s, c) == SelectSeq(s, LAMBDA x : x.id # c.id)

\* the loop of prune_memory_chunks that collects pruned_chunks
RECURSIVE PrunedChunks(_, _, _)
PrunedChunks(sorted_chunks, freed_space, required_space) ==
    IF sorted_chunks = <<>> \/ freed_space >= required_space THEN <<>>
    ELSE <<Head(sorted_chunks)>>
         \o PrunedChunks(Tail(sorted_chunks),
                         freed_space + Head(sorted_chunks).size,
                         required_space)

RECURSIVE RemoveAll(_, _)
RemoveAll(s, pruned) ==
    IF pruned = <<>> THEN s
    ELSE RemoveAll(RemoveChunk(s, Head(pruned)), Tail(pruned))

\* prune_memory_chunks: the store afterwards, and the exception if any.
\* The first removal's index clean-up reads self.memory_index[user_id],
\* a KeyError when the user has no index entry.
prune_memory_chunks(mem, idx, u, required_space) ==
    IF u \notin DOMAIN mem
    THEN [mem |-> mem, idx |-> idx, raised |-> ""]
    ELSE
      LET pruned == PrunedChunks(SortedByTimestamp(mem[u]), 0, required_space)
          ids    == {c.id : c \in Range(pruned)}
      IN IF pruned = <<>>
         THEN [mem |-> mem, idx |-> idx, raised |-> ""]
         ELSE IF u \notin DOMAIN idx
         THEN [mem    |-> [mem EXCEPT ![u] = RemoveChunk(mem[u], Head(pruned))],
               idx    |-> idx,
               raised |-> "KeyError"]
         ELSE [mem    |-> [mem EXCEPT ![u] = RemoveAll(mem[u], pruned)],
               idx    |-> [idx EXCEPT ![u] =
                             [c \in DOMAIN idx[u] |->
                                SelectSeq(idx[u][c], LAMBDA i : i \notin ids)]],
               raised |-> ""]

NoCall == [op |-> "init", user |-> <<>>, content |-> <<>>, category |-> None,
           max_chunks |-> 0, min_timestamp |-> None, max_chunk_size |-> 0,
           file |-> <<>>, required_space |-> 0,
           raised |-> "", ret_id |-> None, ret_chunks |-> <<>>,
           ret_records |-> <<>>, ret_response |-> None,
           message |-> <<>>, sent |-> <<>>, max_results |-> 0,
           memory_context |-> None, max_tokens |-> 0, context_copy |-> None]

\* a file of storage_dir: the chunk records written to it so far, and
\* whether they are closed into a complete JSON document; json.load raises
\* on a file that is not complete
File(records, complete) == [records |-> records, complete |-> complete]

\* no save_memory_state call is in progress
NoWriter == [pc |-> "idle", todo |-> {}, file |-> <<>>, pending |-> <<>>,
             old |-> None]

\* the threads that call add_memory_chunk, and a thread outside a call
Threads == {1, 2}
NoAdd == [pc |-> "idle", user |-> <<>>, chunk |-> None, over |-> FALSE]

\* no call_groq_ai or perform_web_search call is in progress
NoRetry == [fn |-> "idle", attempt |-> 0, attempts |-> 0, outcome |-> "",
            done |-> FALSE, result |-> None, raised |-> ""]

\* the coroutines on_message starts, one per message: each runs
\* generate_response once
Coroutines == 1..MaxCoroutines
BotUsers == {"u1"}
Channels == {"c1", "c2"}

\* message.content of the message coroutine t handles
MessageOf(t) == "m" \o ToString(t)

\* the result of generate_chain_of_thoughts before it is produced
NoCot == [final_conclusion |-> "", total_steps |-> 0, reasoning_steps |-> <<>>]

\* a coroutine whose message has not arrived yet
NoTask == [pc |-> "idle", user_id |-> "", channel |-> "", message |-> "",
           memory |-> <<>>, current_context |-> "", step |-> 0,
           cot_result |-> NoCot, response |-> "", typing |-> "none"]

\* DiscordBot.__init__ with no stored user memory
InitBot ==
    /\ retry = NoRetry
    /\ user_memory = <<>>
    /\ typing_tasks = <<>>
    /\ typing_loops = <<>>
    /\ reasoning_history = <<>>
    /\ tasks = [t \in Coroutines |-> NoTask]
    /\ research_memory = [topics |-> <<>>, last_updated |-> <<>>]

(* ------------------------------ actions ------------------------------- *)
Init ==
    /\ max_bytes \in Budgets
    /\ user_memories = <<>>
    /\ memory_index = <<>>
    /\ disk = [f \in {LogFile} |-> File(<<>>, TRUE)]
    /\ now = 1
    /\ writer = NoWriter
    /\ adding = [t \in Threads |-> NoAdd]
    /\ InitBot
    /\ last = NoCall

\* add_memory_chunk(user_id, content, category)
add_memory_chunk(u, content, category) ==
    /\ \E t \in now..MaxTime :
         LET chunk == MemoryChunk(NewId(UsedIds(user_memories, memory_index), 1),
                                  content, Some(t), category, t)
             current_memory_size == SumSize(GetChunks(user_memories, u))
             pr == IF current_memory_size + chunk.size > max_bytes
                   THEN prune_memory_chunks(user_memories, memory_index, u, chunk.size)
                   ELSE [mem |-> user_memories, idx |-> memory_index, raised |-> ""]
             idx1 == IF u \in DOMAIN pr.idx THEN pr.idx ELSE DictSet(pr.idx, u, <<>>)
             idx2 == IF category \in DOMAIN idx1[u] THEN idx1
                     ELSE [idx1 EXCEPT ![u] = DictSet(idx1[u], category, <<>>)]
         IN /\ TotalChunks(pr.mem) < MaxChunks
            /\ Cardinality(IndexIds(pr.idx)) < MaxChunks
            /\ now' = t
            /\ IF pr.raised # ""
               THEN /\ user_memories' = pr.mem
                    /\ memory_index' = pr.idx
                    /\ last' = [NoCall EXCEPT !.op = "add", !.user = u,
                                  !.content = content, !.category = Some(category),
                                  !.raised = pr.raised]
               ELSE /\ user_memories' =
                         DictSet(pr.mem, u, Append(GetChunks(pr.mem, u), chunk))
                    /\ memory_index' =
                         [idx2 EXCEPT ![u][category] = Append(@, chunk.id)]
                    /\ last' = [NoCall EXCEPT !.op = "add", !.user = u,
                                  !.content = content, !.category = Some(category),
                                  !.ret_id = Some(chunk.id)]
    /\ UNCHANGED <<max_bytes, disk, writer, adding, bot_vars>>

\* a call of add_memory_chunk with arguments from the given sets
AddOver(users, contents, categories) ==
    \E u \in users, content \in contents, category \in categories :
        add_memory_chunk(u, content, category)

AddStep == AddOver(UserIds, Contents, Categories)

\* a call prune_memory_chunks(user_id, required_space) on its own
prune_call(u, required_space) ==
    /\ LET pr == prune_memory_chunks(user_memories, memory_index, u, required_space)
       IN /\ user_memories' = pr.mem
          /\ memory_index' = pr.idx
          /\ last' = [NoCall EXCEPT !.op = "prune", !.user = u,
                        !.required_space = required_space,
                        !.raised = pr.raised]
    /\ UNCHANGED <<max_bytes, disk, now, writer, adding, bot_vars>>

PruneStep ==
    \E u \in UserIds, required_space \in 0..MaxLen :
        prune_call(u, required_space)

\* add_memory_chunk as run by one of several threads; a thread switch can
\* fall between the budget test and the insertion.
\* Lines 151-164: build the chunk, sum the sizes stored now, test the budget
add_check(t, u, content, category) ==
    /\ adding[t].pc = "idle"
    /\ LET in_flight == {s \in Threads : adding[s].pc # "idle"}
           in_flight_ids == {adding[s].chunk[1].id : s \in in_flight}
       IN /\ TotalChunks(user_memories) + Cardinality(in_flight) < MaxChunks
          /\ Cardinality(IndexIds(memory_index)) + Cardinality(in_flight) < MaxChunks
          /\ \E time \in now..MaxTime :
               LET chunk == MemoryChunk(
                              NewId(UsedIds(user_memories, memory_index)
                                      \cup in_flight_ids, 1),
                              content, Some(time), category, time)
                   current_memory_size == SumSize(GetChunks(user_memories, u))
               IN /\ adding' = [adding EXCEPT ![t] =
                                  [pc    |-> "checked",
                                   user  |-> u,
                                   chunk |-> Some(chunk),
                                   over  |-> current_memory_size + chunk.size > max_bytes]]
                  /\ now' = time
    /\ UNCHANGED <<max_bytes, user_memories, memory_index, disk, last, writer, bot_vars>>

\* Lines 164-185: prune if the test said so, append the chunk, update the
\* index, return the id
add_insert(t) ==
    /\ adding[t].pc = "checked"
    /\ LET u == adding[t].user
           chunk == adding[t].chunk[1]
           category == chunk.category
           pr == IF adding[t].over
                 THEN prune_memory_chunks(user_memories, memory_index, u, chunk.size)
                 ELSE [mem |-> user_memories, idx |-> memory_index, raised |-> ""]
           idx1 == IF u \in DOMAIN pr.idx THEN pr.idx ELSE DictSet(pr.idx, u, <<>>)
           idx2 == IF category \in DOMAIN idx1[u] THEN idx1
                   ELSE [idx1 EXCEPT ![u] = DictSet(idx1[u], category, <<>>)]
       IN IF pr.raised # ""
          THEN /\ user_memories' = pr.mem
               /\ memory_index' = pr.idx
               /\ last' = [NoCall EXCEPT !.op = "add", !.user = u,
                             !.content = chunk.content, !.category = Some(category),
                             !.raised = pr.raised]
          ELSE /\ user_memories' =
                    DictSet(pr.mem, u, Append(GetChunks(pr.mem, u), chunk))
               /\ memory_index' =
                    [idx2 EXCEPT ![u][category] = Append(@, chunk.id)]
               /\ last' = [NoCall EXCEPT !.op = "add", !.user = u,
                             !.content = chunk.content, !.category = Some(category),
                             !.ret_id = Some(chunk.id)]
    /\ adding' = [adding EXCEPT ![t] = NoAdd]
    /\ UNCHANGED <<max_bytes, disk, now, writer, bot_vars>>

AddCheckStep ==
    \E t \in Threads, u \in UserIds,
       content \in {ContentOfLen(1), ContentOfLen(2)}, category \in {"default"} :
        add_check(t, u, content, category)

AddInsertStep == \E t \in Threads : add_insert(t)

\* chunks[:max_chunks]
Slice(s, n) ==
    IF n >= 0 THEN SubSeq(s, 1, IF n < Len(s) THEN n ELSE Len(s))
    ELSE SubSeq(s, 1, IF Len(s) + n > 0 THEN Len(s) + n ELSE 0)

\* list.sort(key=timestamp, reverse=True): stable, descending
RECURSIVE InsertDesc(_, _)
InsertDesc(c, s) ==
    IF s = <<>> THEN <<c>>
    ELSE IF Head(s).timestamp >= c.timestamp
         THEN <<Head(s)>> \o InsertDesc(c, Tail(s))
         ELSE <<c>> \o s

\* the sort without reverse=True: oldest first
SortedOldestFirst(s) == SortedByTimestamp(s)

RECURSIVE SortedMostRecentFirst(_)
SortedMostRecentFirst(s) ==
    IF s = <<>> THEN <<>>
    ELSE InsertDesc(s[Len(s)], SortedMostRecentFirst(SubSeq(s, 1, Len(s) - 1)))

\* the list retrieve_memory_chunks sorts: the stored list itself when no
\* filter is applied, a new list otherwise
FilteredChunks(chunks, category, min_timestamp) ==
    LET by_category == IF TruthyStr(category)
                       THEN SelectSeq(chunks, LAMBDA c : c.category = category[1])
                       ELSE chunks
    IN IF TruthyNum(min_timestamp)
       THEN SelectSeq(by_category, LAMBDA c : c.timestamp >= min_timestamp[1])
       ELSE by_category

\* retrieve_memory_chunks with the lookup of line 231 replaced by one that
\* creates the missing entry (self.user_memories.setdefault(user_id, []))
retrieve_creating_entry(u, category, max_chunks, min_timestamp) ==
    LET mem    == IF u \in DOMAIN user_memories THEN user_memories
                  ELSE DictSet(user_memories, u, <<>>)
        chunks == SortedMostRecentFirst(FilteredChunks(mem[u], category, min_timestamp))
        aliased == ~TruthyStr(category) /\ ~TruthyNum(min_timestamp)
    IN /\ user_memories' = IF aliased THEN [mem EXCEPT ![u] = chunks] ELSE mem
       /\ last' = [NoCall EXCEPT !.op = "retrieve", !.user = u,
                     !.category = category, !.max_chunks = max_chunks,
                     !.min_timestamp = min_timestamp,
                     !.ret_chunks = Slice(chunks, max_chunks)]
       /\ UNCHANGED <<max_bytes, memory_index, disk, now, writer, adding, bot_vars>>

\* retrieve_memory_chunks(user_id, category, max_chunks, min_timestamp)
retrieve_memory_chunks(u, category, max_chunks, min_timestamp) ==
    LET call == [NoCall EXCEPT !.op = "retrieve", !.user = u,
                   !.category = category, !.max_chunks = max_chunks,
                   !.min_timestamp = min_timestamp]
    IN /\ IF u \notin DOMAIN user_memories
          THEN /\ last' = call
               /\ UNCHANGED user_memories
          ELSE LET chunks == SortedMostRecentFirst(
                                FilteredChunks(user_memories[u], category, min_timestamp))
                   aliased == ~TruthyStr(category) /\ ~TruthyNum(min_timestamp)
               IN /\ user_memories' = IF aliased
                                      THEN [user_memories EXCEPT ![u] = chunks]
                                      ELSE user_memories
                  /\ last' = [call EXCEPT !.ret_chunks = Slice(chunks, max_chunks)]
       /\ UNCHANGED <<max_bytes, memory_index, disk, now, writer, adding, bot_vars>>

\* a call of retrieve_memory_chunks with arguments from the given sets
RetrieveOver(users, categories, max_chunks_set, min_timestamps) ==
    \E u \in users, category \in categories,
       max_chunks \in max_chunks_set, min_timestamp \in min_timestamps :
        retrieve_memory_chunks(u, category, max_chunks, min_timestamp)

RetrieveStep ==
    \E u \in UserIds,
       category \in {None} \cup {Some(c) : c \in Categories},
       max_chunks \in {0, 1, MaxRetrieve},
       min_timestamp \in {None, Some(MaxTime)} :
        retrieve_memory_chunks(u, category, max_chunks, min_timestamp)

(* ---------------------------- persistence ----------------------------- *)
\* f"{user_id}_memory_state.json"
StateFileName(u) == u \o FileSuffix

\* filename.endswith('_memory_state.json')
EndsWith(f, suffix) ==
    /\ Len(f) >= Len(suffix)
    /\ SubSeq(f, Len(f) - Len(suffix) + 1, Len(f)) = suffix

\* filename.split('_')[0]
RECURSIVE SplitFirst(_)
SplitFirst(f) ==
    IF f = <<>> \/ Head(f) = "_" THEN <<>> ELSE <<Head(f)>> \o SplitFirst(Tail(f))

\* the record json.dump writes for a chunk; load reads only these three keys
\* (the written 'id' and 'metadata' are never read back)
Serialized(chunks) ==
    [i \in 1..Len(chunks) |->
        [content   |-> chunks[i].content,
         timestamp |-> chunks[i].timestamp,
         category  |-> chunks[i].category]]

\* save_memory_state()
save_memory_state ==
    /\ disk' = [f \in DOMAIN disk \cup {StateFileName(u) : u \in DOMAIN user_memories} |->
                  IF \E u \in DOMAIN user_memories : f = StateFileName(u)
                  THEN File(Serialized(user_memories[CHOOSE u \in DOMAIN user_memories :
                                                         f = StateFileName(u)]), TRUE)
                  ELSE disk[f]]
    /\ last' = [NoCall EXCEPT !.op = "save"]
    /\ UNCHANGED <<max_bytes, user_memories, memory_index, now, writer, adding, bot_vars>>

\* the chunks load_memory_state builds from one file
RECURSIVE LoadedChunks(_, _, _)
LoadedChunks(serialized_chunks, used, clock) ==
    IF serialized_chunks = <<>> THEN <<>>
    ELSE LET id == NewId(used, 1)
         IN <<MemoryChunk(id, Head(serialized_chunks).content,
                          Some(Head(serialized_chunks).timestamp),
                          Head(serialized_chunks).category, clock)>>
            \o LoadedChunks(Tail(serialized_chunks), used \cup {id}, clock)

\* the loop of load_memory_state over os.listdir(storage_dir), in the order
\* the directory listing gives; a file json.load raises on is logged and
\* skipped
RECURSIVE LoadFiles(_, _, _, _, _)
LoadFiles(files, d, mem, idx, clock) ==
    IF files = <<>> THEN mem
    ELSE LET filename == Head(files)
         IN IF EndsWith(filename, FileSuffix) /\ d[filename].complete
            THEN LoadFiles(Tail(files), d,
                           DictSet(mem, SplitFirst(filename),
                                   LoadedChunks(d[filename].records, UsedIds(mem, idx), clock)),
                           idx, clock)
            ELSE LoadFiles(Tail(files), d, mem, idx, clock)

\* os.listdir: the files in any order
Listings(d) ==
    {s \in [1..Cardinality(DOMAIN d) -> DOMAIN d] :
        \A i, j \in 1..Cardinality(DOMAIN d) : i # j => s[i] # s[j]}

\* load_memory_state() on the store (mem, idx), for one directory listing
load_memory_state(files, mem, idx, clock) == LoadFiles(files, disk, mem, idx, clock)

\* UserMemoryManager.__init__ of a new process over the same storage_dir:
\* empty dicts, then load_memory_state(); a call the old process was in
\* ends where it was
Construct ==
    /\ max_bytes' \in Budgets
    /\ memory_index' = <<>>
    /\ \E files \in Listings(disk) :
         user_memories' = load_memory_state(files, <<>>, <<>>, now)
    /\ last' = [NoCall EXCEPT !.op = "construct"]
    /\ writer' = NoWriter
    /\ adding' = [t \in Threads |-> NoAdd]
    /\ UNCHANGED <<disk, now, bot_vars>>

\* save_memory_state() step by step, as another process sees it.
\* Lines 256-272: the next user of the loop (all of them when the call
\* starts); open(user_memory_file, 'w') truncates the file.
save_open ==
    /\ writer.pc \in {"idle", "between"}
    /\ LET todo == IF writer.pc = "idle" THEN DOMAIN user_memories ELSE writer.todo
       IN \E u \in todo :
            LET f == StateFileName(u)
            IN /\ disk' = DictSet(disk, f, File(<<>>, FALSE))
               /\ writer' = [pc      |-> "writing",
                             todo    |-> todo \ {u},
                             file    |-> f,
                             pending |-> Serialized(user_memories[u]),
                             old     |-> IF f \in DOMAIN disk /\ disk[f].complete
                                         THEN Some(disk[f].records) ELSE None]
    /\ UNCHANGED <<max_bytes, user_memories, memory_index, now, last, adding, bot_vars>>

\* Line 273: json.dump writes the document piece by piece; the pieces of
\* one more chunk record reach the file
save_write ==
    /\ writer.pc = "writing"
    /\ writer.pending # <<>>
    /\ disk' = [disk EXCEPT ![writer.file] =
                   File(Append(@.records, Head(writer.pending)), FALSE)]
    /\ writer' = [writer EXCEPT !.pending = Tail(@)]
    /\ UNCHANGED <<max_bytes, user_memories, memory_index, now, last, adding, bot_vars>>

\* Lines 272-275: the end of the document is written and the file closed;
\* after the last user the call returns
save_close ==
    /\ writer.pc = "writing"
    /\ writer.pending = <<>>
    /\ disk' = [disk EXCEPT ![writer.file] = File(@.records, TRUE)]
    /\ IF writer.todo = {}
       THEN /\ writer' = NoWriter
            /\ last' = [NoCall EXCEPT !.op = "save"]
       ELSE /\ writer' = [writer EXCEPT !.pc = "between"]
            /\ UNCHANGED last
    /\ UNCHANGED <<max_bytes, user_memories, memory_index, now, adding, bot_vars>>

\* Lines 284-286 of load_memory_state in another process: open the record
\* file and json.load it
read_record(filename) ==
    /\ last' = IF disk[filename].complete
               THEN [NoCall EXCEPT !.op = "read", !.file = filename,
                       !.ret_records = disk[filename].records]
               ELSE [NoCall EXCEPT !.op = "read", !.file = filename,
                       !.raised = "JSONDecodeError"]
    /\ UNCHANGED <<max_bytes, user_memories, memory_index, disk, now, writer, adding, bot_vars>>

ReadStep ==
    \E filename \in DOMAIN disk :
        EndsWith(filename, FileSuffix) /\ read_record(filename)

(* --------------------------- file ingestion --------------------------- *)
\* content.split(): the maximal runs of non-whitespace characters
RECURSIVE SplitWords(_, _)
SplitWords(text, word) ==
    IF text = <<>> THEN (IF word = <<>> THEN <<>> ELSE <<word>>)
    ELSE IF Head(text) = " "
         THEN (IF word = <<>> THEN <<>> ELSE <<word>>) \o SplitWords(Tail(text), <<>>)
         ELSE SplitWords(Tail(text), Append(word, Head(text)))

\* ' '.join(words)
RECURSIVE Join(_)
Join(words) ==
    IF words = <<>> THEN <<>>
    ELSE IF Len(words) = 1 THEN Head(words)
    ELSE Head(words) \o <<" ">> \o Join(Tail(words))

\* the test of line 98 with >= in place of >
ChunkIsFullAtLimit(current_chunk_size, word, max_chunk_size) ==
    current_chunk_size + Len(word) >= max_chunk_size

\* the test of line 98: the word does not fit into the current chunk
ChunkIsFull(current_chunk_size, word, max_chunk_size) ==
    current_chunk_size + Len(word) > max_chunk_size

\* the loop of split_memory_content with line 104 not counting the space
RECURSIVE SplitLoopNoSeparator(_, _, _, _, _)
SplitLoopNoSeparator(words, chunks, current_chunk, current_chunk_size, max_chunk_size) ==
    IF words = <<>>
    THEN IF current_chunk # <<>> THEN Append(chunks, Join(current_chunk)) ELSE chunks
    ELSE LET word  == Head(words)
             close == ChunkIsFull(current_chunk_size, word, max_chunk_size)
         IN SplitLoopNoSeparator(Tail(words),
                      IF close THEN Append(chunks, Join(current_chunk)) ELSE chunks,
                      IF close THEN <<word>> ELSE Append(current_chunk, word),
                      (IF close THEN 0 ELSE current_chunk_size) + Len(word),
                      max_chunk_size)

\* the loop of split_memory_content: the contents of the chunks it appends
RECURSIVE SplitLoop(_, _, _, _, _)
SplitLoop(words, chunks, current_chunk, current_chunk_size, max_chunk_size) ==
    IF words = <<>>
    THEN IF current_chunk # <<>> THEN Append(chunks, Join(current_chunk)) ELSE chunks
    ELSE LET word  == Head(words)
             close == ChunkIsFull(current_chunk_size, word, max_chunk_size)
         IN SplitLoop(Tail(words),
                      IF close THEN Append(chunks, Join(current_chunk)) ELSE chunks,
                      IF close THEN <<word>> ELSE Append(current_chunk, word),
                      (IF close THEN 0 ELSE current_chunk_size) + Len(word) + 1,
                      max_chunk_size)

\* split_memory_content(content, max_chunk_size): the chunk contents, in order
split_memory_content(content, max_chunk_size) ==
    SplitLoop(SplitWords(content, <<>>), <<>>, <<>>, 0, max_chunk_size)

\* the MemoryChunk objects for the split contents: no timestamp argument,
\* default category; times[i] is the clock read constructing chunk i
RECURSIVE ChunksOf(_, _, _)
ChunksOf(contents, used, times) ==
    IF contents = <<>> THEN <<>>
    ELSE LET id == NewId(used, 1)
         IN <<MemoryChunk(id, Head(contents), None, "default", Head(times))>>
            \o ChunksOf(Tail(contents), used \cup {id}, Tail(times))

\* process_memory_file(file_path) for the file <user_id>.txt holding text;
\* an unreadable file (text = None) is caught and [] is returned
process_memory_file(u, text) ==
    IF text = None
    THEN /\ last' = [NoCall EXCEPT !.op = "process", !.user = u]
         /\ UNCHANGED <<max_bytes, user_memories, memory_index, disk, now, writer, adding, bot_vars>>
    ELSE LET contents == split_memory_content(text[1], DefaultMaxChunkSize)
             n == Len(contents)
         IN \E times \in [1..n -> now..MaxTime] :
              /\ \A i \in 1..n : i > 1 => times[i - 1] <= times[i]
              /\ LET memory_chunks ==
                        ChunksOf(contents, UsedIds(user_memories, memory_index), times)
                 IN /\ user_memories' = DictSet(user_memories, u, memory_chunks)
                    /\ last' = [NoCall EXCEPT !.op = "process", !.user = u,
                                  !.ret_chunks = memory_chunks]
              /\ TotalChunks(user_memories') <= MaxChunks
              /\ now' = IF n = 0 THEN now ELSE times[n]
              /\ UNCHANGED <<max_bytes, memory_index, disk, writer, adding, bot_vars>>

ProcessStep ==
    \E u \in UserIds, text \in {None} \cup {Some(t) : t \in Texts} :
        process_memory_file(u, text)

\* a call of process_memory_file for users and file texts from the given sets
ProcessOver(users, texts) ==
    \E u \in users, text \in {None} \cup {Some(t) : t \in texts} :
        process_memory_file(u, text)

\* send_memory_to_groq(user_id, message). file is what the path
\* <user_id>.txt holds: None if it does not exist, Some(None) if it cannot
\* be read, Some(Some(text)) otherwise; response is what the completion
\* call gives, None if it raises
send_memory_to_groq(u, message, file, response) ==
    LET call == [NoCall EXCEPT !.op = "send", !.user = u, !.content = message]
    IN IF u \notin DOMAIN user_memories /\ file = None
       THEN /\ last' = call
            /\ UNCHANGED <<max_bytes, user_memories, memory_index, disk, now, writer, adding, bot_vars>>
       ELSE IF u \notin DOMAIN user_memories /\ file[1] # None
       THEN LET contents == split_memory_content(file[1][1], DefaultMaxChunkSize)
                n == Len(contents)
            IN \E times \in [1..n -> now..MaxTime] :
                 /\ \A i \in 1..n : i > 1 => times[i - 1] <= times[i]
                 /\ user_memories' = DictSet(user_memories, u,
                        ChunksOf(contents, UsedIds(user_memories, memory_index), times))
                 /\ TotalChunks(user_memories') <= MaxChunks
                 /\ now' = IF n = 0 THEN now ELSE times[n]
                 /\ last' = IF n = 0 THEN call
                            ELSE [call EXCEPT !.ret_response = response]
                 /\ UNCHANGED <<max_bytes, memory_index, disk, writer, adding, bot_vars>>
       ELSE /\ last' = IF GetChunks(user_memories, u) = <<>> THEN call
                       ELSE [call EXCEPT !.ret_response = response]
            /\ UNCHANGED <<max_bytes, user_memories, memory_index, disk, now, writer, adding, bot_vars>>

\* a call of send_memory_to_groq for users and file texts from the given sets
SendOver(users, texts) ==
    \E u \in users, message \in {ContentOfLen(1)},
       file \in {None, Some(None)} \cup {Some(Some(t)) : t \in texts},
       response \in {None, Some(<<"o", "k">>)} :
        send_memory_to_groq(u, message, file, response)

SendStep == SendOver(UserIds, Texts)

\* a call split_memory_content(content, max_chunk_size) on its own: the
\* pending call is held in last, the step returns its MemoryChunk objects
SplitReturn ==
    /\ last.op = "call_split"
    /\ LET contents == split_memory_content(last.content, last.max_chunk_size)
           n == Len(contents)
       IN \E times \in [1..n -> now..MaxTime] :
            /\ \A i \in 1..n : i > 1 => times[i - 1] <= times[i]
            /\ last' = [last EXCEPT !.op = "split",
                          !.ret_chunks = ChunksOf(contents,
                                UsedIds(user_memories, memory_index), times)]
            /\ now' = IF n = 0 THEN now ELSE times[n]
    /\ UNCHANGED <<max_bytes, user_memories, memory_index, disk, writer, adding, bot_vars>>

(* --------------------------- outbound calls --------------------------- *)
\* max_retries of call_groq_ai and of perform_web_search
call_groq_ai_max_retries == 100
perform_web_search_max_retries == 5

\* what call_groq_ai returns: the completion, or the sentence of line 1117
Reply == "reply"
Exhausted == "Sorry, I've exhausted all attempts"

\* what one attempt of call_groq_ai meets: status 200 with a completion,
\* status 200 with a body without 'choices' (KeyError), status 429 with and
\* without a parsable delay (ValueError), another status, the aiohttp
\* errors, any other exception, and cancellation of the awaiting task
GroqOutcomes ==
    {"200", "200_malformed", "429", "429_unparsable", "500",
     "ClientConnectionError", "ClientResponseError", "Exception",
     "CancelledError"}

\* what one attempt of perform_web_search meets: results, no results, an
\* exception of web_search, and cancellation during the sleep that follows
SearchOutcomes == {"results", "no_results", "Exception", "CancelledError"}

\* the loop counter of perform_web_search after an attempt without
\* results, with the increment of line 845 left out
retry_count_unless_exception(retry_count, outcome) ==
    IF outcome = "Exception" THEN retry_count ELSE retry_count + 1

\* the loop counter of perform_web_search after an attempt without results
\* (lines 840 and 845)
next_retry_count(retry_count, outcome) == retry_count + 1

\* the for loop of call_groq_ai going on after a failed attempt
next_attempt(attempt, outcome) == attempt + 1

\* a call of call_groq_ai or perform_web_search starts
retry_call(fn) ==
    /\ retry.fn = "idle" \/ retry.done
    /\ retry' = [NoRetry EXCEPT !.fn = fn]
    /\ UNCHANGED <<store_vars, research_memory, last, user_memory, typing_tasks, typing_loops,
                   reasoning_history, tasks>>

\* one pass of the loop of call_groq_ai (lines 1045-1114), and the return
\* of line 1117 when the range is used up
call_groq_ai_attempt(outcome) ==
    /\ retry.fn = "call_groq_ai"
    /\ ~retry.done
    /\ retry.attempt < call_groq_ai_max_retries
    /\ LET made == [retry EXCEPT !.attempts = @ + 1, !.outcome = outcome]
           attempt == next_attempt(retry.attempt, outcome)
       IN retry' =
            IF outcome = "200"
            THEN [made EXCEPT !.done = TRUE, !.result = Some(Reply)]
            ELSE IF outcome = "CancelledError"
            THEN [made EXCEPT !.done = TRUE, !.raised = "CancelledError"]
            ELSE IF attempt >= call_groq_ai_max_retries
            THEN [made EXCEPT !.attempt = attempt, !.done = TRUE,
                              !.result = Some(Exhausted)]
            ELSE [made EXCEPT !.attempt = attempt]
    /\ UNCHANGED <<store_vars, research_memory, last, user_memory, typing_tasks, typing_loops,
                   reasoning_history, tasks>>

\* one pass of the loop of perform_web_search (lines 818-846), and the
\* return of line 848 when retry_count reaches max_retries
perform_web_search_attempt(outcome) ==
    /\ retry.fn = "perform_web_search"
    /\ ~retry.done
    /\ retry.attempt < perform_web_search_max_retries
    /\ LET made == [retry EXCEPT !.attempts = @ + 1, !.outcome = outcome]
           retry_count == next_retry_count(retry.attempt, outcome)
       IN retry' =
            IF outcome = "results"
            THEN [made EXCEPT !.done = TRUE, !.result = Some("results")]
            ELSE IF outcome = "CancelledError"
            THEN [made EXCEPT !.attempt = retry_count, !.done = TRUE,
                              !.raised = "CancelledError"]
            ELSE IF retry_count >= perform_web_search_max_retries
            THEN [made EXCEPT !.attempt = retry_count, !.done = TRUE,
                              !.result = Some("no results")]
            ELSE [made EXCEPT !.attempt = retry_count]
    /\ UNCHANGED <<store_vars, research_memory, last, user_memory, typing_tasks, typing_loops,
                   reasoning_history, tasks>>

RetryCallStep == \E fn \in {"call_groq_ai", "perform_web_search"} : retry_call(fn)

GroqAttemptStep == \E outcome \in GroqOutcomes : call_groq_ai_attempt(outcome)

SearchAttemptStep == \E outcome \in SearchOutcomes : perform_web_search_attempt(outcome)

(* -------------------------- response generation ----------------------- *)
\* what the completion service answers to a prompt built on a text
ReplyTo(text) == "re:" \o text

\* what `await call_groq_ai(prompt)` can give for a prompt built on a text
GroqResults(text) == {ReplyTo(text), Exhausted}

\* d.pop(k, None) on a dict: the dict without the key
DictPop(d, k) == [x \in DOMAIN d \ {k} |-> d[x]]

\* TypingManager.start_typing(channel): nothing if the channel has a task,
\* else a new typing_loop task is created and registered
start_typing(tt, tl, channel) ==
    IF channel \in DOMAIN tt
    THEN [typing_tasks |-> tt, typing_loops |-> tl]
    ELSE LET task == NewId(DOMAIN tl, 1)
         IN [typing_tasks |-> DictSet(tt, channel, task),
             typing_loops |-> DictSet(tl, task, "running")]

\* TypingManager.stop_typing(channel) without the task.cancel() of line 91
stop_typing_no_cancel(tt, tl, channel) ==
    IF channel \notin DOMAIN tt
    THEN [typing_tasks |-> tt, typing_loops |-> tl]
    ELSE [typing_tasks |-> DictPop(tt, channel),
          typing_loops |-> IF tl[tt[channel]] = "running" THEN tl
                           ELSE DictPop(tl, tt[channel])]

\* TypingManager.stop_typing(channel): the channel's task is unregistered
\* and, unless it is done, cancelled; either way the task is over
stop_typing(tt, tl, channel) ==
    IF channel \notin DOMAIN tt
    THEN [typing_tasks |-> tt, typing_loops |-> tl]
    ELSE [typing_tasks |-> DictPop(tt, channel),
          typing_loops |-> DictPop(tl, tt[channel])]

\* typing_loop: channel.typing() raises, the exception is printed and the
\* task is done (it stays registered)
typing_error(task) ==
    /\ task \in DOMAIN typing_loops
    /\ typing_loops[task] = "running"
    /\ typing_loops' = [typing_loops EXCEPT ![task] = "failed"]
    /\ UNCHANGED <<store_vars, research_memory, last, retry, user_memory, typing_tasks,
                   reasoning_history, tasks>>

TypingErrorStep == \E task \in DOMAIN typing_loops : typing_error(task)

\* _perform_reasoning_step: the reasoning step built from the conclusion
reasoning_step(context, conclusion) ==
    [context |-> context, conclusion |-> conclusion]

\* _synthesize_conclusion on a reasoning history
synthesize_conclusion(history) ==
    IF history = <<>> THEN "No conclusive reasoning could be performed."
    ELSE history[Len(history)].conclusion

\* the sentences generate_response returns without a completion
NoChannelMessage == "Sorry, I cannot process your message without a valid channel."
TroubleMessage == "Sorry, I'm having trouble generating a response right now."

\* what the web search of lines 885-912 adds to the local memory
WebOutcomes == {"results", "none", "Exception"}
WebMessages(web) ==
    IF web = "results" THEN <<[role |-> "system", content |-> "web results"]>>
    ELSE IF web = "Exception" THEN <<[role |-> "system", content |-> "web failed"]>>
    ELSE <<>>

\* generate_response, lines 851-882, up to the first await of the
\* reasoning chain: the channel is found (or the call returns), typing is
\* started, the user's memory copied, generate_chain_of_thoughts resets the
\* shared history and its first step awaits the ai_caller
generate_response_start(t, user_id, channel) ==
    /\ tasks[t].pc = "idle"
    /\ IF channel = None
       THEN /\ tasks' = [tasks EXCEPT ![t] =
                           [NoTask EXCEPT !.pc = "done", !.user_id = user_id,
                                          !.message = MessageOf(t),
                                          !.response = NoChannelMessage]]
            /\ UNCHANGED <<typing_tasks, typing_loops, reasoning_history>>
       ELSE LET typing == start_typing(typing_tasks, typing_loops, channel[1])
            IN /\ typing_tasks' = typing.typing_tasks
               /\ typing_loops' = typing.typing_loops
               /\ reasoning_history' = <<>>
               /\ tasks' = [tasks EXCEPT ![t] =
                              [NoTask EXCEPT !.pc = "cot_wait",
                                             !.typing = "started",
                                             !.user_id = user_id,
                                             !.channel = channel[1],
                                             !.message = MessageOf(t),
                                             !.memory = GetChunks(user_memory, user_id),
                                             !.current_context = MessageOf(t)]]
    /\ UNCHANGED <<store_vars, research_memory, last, retry, user_memory>>

\* the ai_caller of a reasoning step returns (chain_of_thoughts.py lines
\* 75-88): the step is appended to the shared history and the loop goes on
\* to the next await, or (lines 91-98, main.py lines 883-1003) the chain
\* returns its result and generate_response builds the prompt from its
\* memory copy and awaits call_groq_ai
reasoning_step_returns(t, conclusion, stop, web) ==
    /\ tasks[t].pc = "cot_wait"
    /\ LET task == tasks[t]
           history == Append(reasoning_history,
                             reasoning_step(task.current_context, conclusion))
       IN /\ reasoning_history' = history
          /\ IF ~stop /\ task.step + 1 < MaxReasoningSteps
             THEN tasks' = [tasks EXCEPT ![t] =
                              [task EXCEPT !.current_context = conclusion,
                                           !.step = @ + 1]]
             ELSE LET cot_result ==
                         [final_conclusion |-> synthesize_conclusion(history),
                          total_steps      |-> Len(history),
                          reasoning_steps  |-> history]
                  IN tasks' = [tasks EXCEPT ![t] =
                        [task EXCEPT
                           !.pc = "groq_wait",
                           !.current_context = conclusion,
                           !.step = @ + 1,
                           !.cot_result = cot_result,
                           !.memory = @ \o WebMessages(web)
                              \o <<[role |-> "system",
                                    content |-> "cot:" \o cot_result.final_conclusion],
                                   [role |-> "user", content |-> task.message]>>]]
    /\ UNCHANGED <<store_vars, research_memory, last, retry, user_memory, typing_tasks, typing_loops>>

\* call_groq_ai returns (lines 1003-1021 and the finally of 1030-1035): the
\* reply is appended to the memory copy, the copy is stored as the user's
\* memory, the response returned and typing stopped; when the saving or
\* tracking after the store raises, the sentence of line 1028 is returned
generate_response_finish(t, response, raised) ==
    /\ tasks[t].pc = "groq_wait"
    /\ LET task == tasks[t]
           typing == stop_typing(typing_tasks, typing_loops, task.channel)
       IN /\ user_memory' = DictSet(user_memory, task.user_id,
                               Append(task.memory,
                                      [role |-> "bot", content |-> response]))
          /\ typing_tasks' = typing.typing_tasks
          /\ typing_loops' = typing.typing_loops
          /\ tasks' = [tasks EXCEPT ![t] =
                         [task EXCEPT !.pc = "done", !.memory = <<>>,
                                      !.typing = "stopped",
                                      !.response = IF raised THEN TroubleMessage
                                                   ELSE response]]
    /\ UNCHANGED <<store_vars, research_memory, last, retry, reasoning_history>>

\* an await of generate_response raises (an exception of the reasoning
\* chain, or cancellation of the task): lines 1023-1035, the except
\* BaseException returns the sentence and the finally stops typing
generate_response_fails(t) ==
    /\ tasks[t].pc \in {"cot_wait", "groq_wait"}
    /\ LET task == tasks[t]
           typing == stop_typing(typing_tasks, typing_loops, task.channel)
       IN /\ typing_tasks' = typing.typing_tasks
          /\ typing_loops' = typing.typing_loops
          /\ tasks' = [tasks EXCEPT ![t] =
                         [task EXCEPT !.pc = "done", !.memory = <<>>,
                                      !.typing = "stopped",
                                      !.response = TroubleMessage]]
    /\ UNCHANGED <<store_vars, research_memory, last, retry, user_memory, reasoning_history>>

StartOver(channels) ==
    \E t \in Coroutines, user_id \in BotUsers,
       channel \in {None} \cup {Some(c) : c \in channels} :
        generate_response_start(t, user_id, channel)

ReasoningOver(outcomes, webs, stops) ==
    \E t \in Coroutines, stop \in stops, web \in webs :
        \E conclusion \in GroqResults(tasks[t].current_context) \cap outcomes :
            reasoning_step_returns(t, conclusion, stop, web)

FinishOver(outcomes) ==
    \E t \in Coroutines, raised \in BOOLEAN :
        \E response \in GroqResults(tasks[t].message) \cap outcomes :
            generate_response_finish(t, response, raised)

\* every completion of a prompt of the model
Completions == {ReplyTo(MessageOf(t)) : t \in Coroutines}

ReasoningStep ==
    \E t \in Coroutines, stop \in BOOLEAN, web \in WebOutcomes :
        \E conclusion \in GroqResults(tasks[t].current_context) :
            reasoning_step_returns(t, conclusion, stop, web)

FinishStep ==
    \E t \in Coroutines, raised \in BOOLEAN :
        \E response \in GroqResults(tasks[t].message) :
            generate_response_finish(t, response, raised)

FailStep == \E t \in Coroutines : generate_response_fails(t)

(* --------------------------- long messages --------------------------- *)

\* chunk.rfind(' '): the position of the last space of the chunk, 0 for the
\* -1 of Python (positions count from 1 here)
rfind(chunk) ==
    LET spaces == {i \in DOMAIN chunk : chunk[i] = " "}
    IN IF spaces = {} THEN 0 ELSE CHOOSE i \in spaces : \A k \in spaces : k <= i

\* str.lstrip()
RECURSIVE lstrip(_)
lstrip(text) ==
    IF text # <<>> /\ Head(text) = " " THEN lstrip(Tail(text)) ELSE text

\* one turn of the while loop of send_long_message, lines 1128-1148, with
\* MessageLimit standing for the 2000 of Discord: the chunk sent and the
\* message left
send_long_message_turn(message) ==
    IF Len(message) <= MessageLimit
    THEN [chunk |-> message, message |-> <<>>]
    ELSE LET head == SubSeq(message, 1, MessageLimit)
             last_space == rfind(head)
         IN IF last_space # 0
            THEN [chunk |-> SubSeq(head, 1, last_space - 1),
                  message |-> lstrip(SubSeq(message, last_space, Len(message)))]
            ELSE [chunk |-> head,
                  message |-> SubSeq(message, MessageLimit + 1, Len(message))]

\* the loop runs one turn and awaits channel.send(chunk)
SendChunk ==
    /\ last.op \in {"call_send_long", "sending"}
    /\ last.content # <<>>
    /\ LET turn == send_long_message_turn(last.content)
       IN last' = [last EXCEPT !.op = "sending", !.content = turn.message,
                               !.sent = Append(@, turn.chunk)]
    /\ UNCHANGED <<store_vars, bot_vars>>

\* the while condition fails: send_long_message returns
SendLongReturn ==
    /\ last.op \in {"call_send_long", "sending"}
    /\ last.content = <<>>
    /\ last' = [last EXCEPT !.op = "sent_long"]
    /\ UNCHANGED <<store_vars, bot_vars>>

(* -------------------------- research memory --------------------------- *)

\* queries are lists of words; the topic hash of a query is modelled by the
\* query itself (generate_topic_hash is the md5 of the lowered query)
ResearchQueries == {<<"a">>, <<"b">>, <<"a", "b">>}

\* a Python dict in insertion order: a sequence of [key, value] entries
OdHas(d, k) == \E i \in DOMAIN d : d[i].key = k
OdGet(d, k) == d[CHOOSE i \in DOMAIN d : d[i].key = k].value
OdSet(d, k, v) ==
    IF OdHas(d, k)
    THEN [i \in DOMAIN d |-> IF d[i].key = k THEN [key |-> k, value |-> v] ELSE d[i]]
    ELSE Append(d, [key |-> k, value |-> v])
OdDel(d, k) == SelectSeq(d, LAMBDA e : e.key # k)

\* is_topic_expired(topic_hash) at time t
is_topic_expired(memory, topic_hash, t) ==
    IF ~OdHas(memory.last_updated, topic_hash) THEN TRUE
    ELSE t > OdGet(memory.last_updated, topic_hash) + RetentionDays

\* calculate_query_similarity in percent: the common words over the larger
\* word count
calculate_query_similarity(query1, query2) ==
    LET words1 == Range(query1)
        words2 == Range(query2)
        larger == IF Cardinality(words1) >= Cardinality(words2)
                  THEN Cardinality(words1) ELSE Cardinality(words2)
    IN (100 * Cardinality(words1 \cap words2)) \div larger

\* min(last_updated, key=last_updated.get): the first key, in dict order,
\* with the least time
OldestTopic(last_updated) ==
    LET i == CHOOSE i \in DOMAIN last_updated :
                 /\ \A k \in DOMAIN last_updated :
                       last_updated[i].value <= last_updated[k].value
                 /\ \A k \in 1..(i - 1) :
                       last_updated[k].value > last_updated[i].value
    IN last_updated[i].key

\* save_comprehensive_research(query, results): the oldest topic is dropped
\* when the memory is full, the research file written and the topic
\* recorded; an exception (written = FALSE: the file cannot be written) is
\* logged and None returned. The file of a topic holds its query.
save_comprehensive_research(query, written) ==
    LET full == Len(research_memory.topics) >= MemorySize
        evicted ==
            IF full
            THEN LET oldest_topic == OldestTopic(research_memory.last_updated)
                 IN [topics |-> OdDel(research_memory.topics, oldest_topic),
                     last_updated |-> OdDel(research_memory.last_updated, oldest_topic)]
            ELSE research_memory
    IN /\ research_memory' =
             IF written
             THEN [topics |-> OdSet(evicted.topics, query, query),
                   last_updated |-> OdSet(evicted.last_updated, query, now)]
             ELSE evicted
       /\ last' = [NoCall EXCEPT !.op = "save_comprehensive_research",
                                 !.content = query,
                                 !.ret_id = IF written THEN Some(query) ELSE None]
       /\ UNCHANGED <<store_vars, retry, user_memory, typing_tasks, typing_loops,
                      reasoning_history, tasks>>

\* relevant_researches.sort(key=similarity_score, reverse=True): stable
RECURSIVE InsertBySimilarity(_, _)
InsertBySimilarity(sorted, e) ==
    IF sorted = <<>> THEN <<e>>
    ELSE IF Head(sorted).similarity_score >= e.similarity_score
         THEN <<Head(sorted)>> \o InsertBySimilarity(Tail(sorted), e)
         ELSE <<e>> \o sorted

RECURSIVE SortBySimilarity(_)
SortBySimilarity(researches) ==
    IF researches = <<>> THEN <<>>
    ELSE InsertBySimilarity(SortBySimilarity(SubSeq(researches, 1, Len(researches) - 1)),
                            researches[Len(researches)])
\* the for loop of find_relevant_research over the items of 'topics' at
\* time t. Deleting an expired topic inside the loop changes the size of the
\* dict under iteration, so the next advance of the iterator raises
\* RuntimeError; a topic without a last_updated entry raises KeyError at the
\* second del. The files of the topics in unreadable fail to load and are
\* skipped.
RECURSIVE FindLoop(_, _, _, _, _, _)
FindLoop(items, memory, relevant, user_query, unreadable, t) ==
    IF items = <<>>
    THEN [memory |-> memory, relevant |-> relevant, raised |-> ""]
    ELSE LET topic_hash == Head(items).key
             query == Head(items).value
         IN IF is_topic_expired(memory, topic_hash, t)
            THEN IF ~OdHas(memory.last_updated, topic_hash)
                 THEN [memory |-> [memory EXCEPT !.topics = OdDel(@, topic_hash)],
                       relevant |-> relevant, raised |-> "KeyError"]
                 ELSE [memory |-> [topics |-> OdDel(memory.topics, topic_hash),
                                   last_updated |-> OdDel(memory.last_updated, topic_hash)],
                       relevant |-> relevant, raised |-> "RuntimeError"]
            ELSE LET similarity_score == calculate_query_similarity(user_query, query)
                 IN FindLoop(Tail(items), memory,
                             IF topic_hash \notin unreadable /\ similarity_score > 50
                             THEN Append(relevant,
                                         [query |-> query,
                                          similarity_score |-> similarity_score])
                             ELSE relevant,
                             user_query, unreadable, t)

\* find_relevant_research(user_query, max_results)
find_relevant_research(user_query, max_results, unreadable) ==
    LET loop == FindLoop(research_memory.topics, research_memory, <<>>,
                         user_query, unreadable, now)
        sorted == SortBySimilarity(loop.relevant)
    IN /\ research_memory' = loop.memory
       /\ last' = [NoCall EXCEPT
                     !.op = "find_relevant_research",
                     !.content = user_query,
                     !.max_results = max_results,
                     !.raised = loop.raised,
                     !.ret_records =
                        IF loop.raised # "" THEN <<>>
                        ELSE SubSeq(sorted, 1,
                                    IF max_results < Len(sorted) THEN max_results
                                    ELSE Len(sorted))]
       /\ UNCHANGED <<store_vars, retry, user_memory, typing_tasks, typing_loops,
                      reasoning_history, tasks>>

\* time passes between two readings of datetime.now()
ClockTick ==
    /\ now < MaxResearchTime
    /\ now' = now + 1
    /\ UNCHANGED <<max_bytes, user_memories, memory_index, disk, last, writer,
                   adding, bot_vars>>

SaveResearchStep ==
    \E query \in ResearchQueries, written \in BOOLEAN :
        save_comprehensive_research(query, written)

FindResearchStep ==
    \E user_query \in ResearchQueries, max_results \in 1..MaxRetrieve,
       unreadable \in {{}} \cup {{q} : q \in ResearchQueries} :
        find_relevant_research(user_query, max_results, unreadable)

(* ------------------------- memory truncation -------------------------- *)

\* a memory context is a dict or a list of entries in stored order; an entry
\* has a key (unused in a list) and a string value
ContextValues == {<<"x">>, <<"x", "y", "x", "y">>, <<"é">>}
MemoryContexts ==
    {[kind |-> kind,
      entries |-> [i \in DOMAIN values |-> [key |-> <<"c", ToString(i)>>, value |-> values[i]]]] :
        kind \in {"dict", "list"},
        values \in UNION {[1..n -> ContextValues] : n \in 0..MaxContext}}

\* json.dumps of a string: quotes around the characters, a character
\* outside ASCII as its \uXXXX escape
RECURSIVE JsonEscape(_)
JsonEscape(text) ==
    IF text = <<>> THEN <<>>
    ELSE (IF Head(text) = "é" THEN <<"\\", "u", "0", "0", "e", "9">>
          ELSE <<Head(text)>>) \o JsonEscape(Tail(text))

json_dumps_string(text) == <<"\"">> \o JsonEscape(text) \o <<"\"">>

\* json.loads of such a string
RECURSIVE JsonUnescape(_)
JsonUnescape(body) ==
    IF body = <<>> THEN <<>>
    ELSE IF Head(body) = "\\"
         THEN <<"é">> \o JsonUnescape(SubSeq(body, 7, Len(body)))
         ELSE <<Head(body)>> \o JsonUnescape(Tail(body))

json_loads_string(json) == JsonUnescape(SubSeq(json, 2, Len(json) - 1))

\* json.loads(json.dumps(memory_context)): the deep copy of line 174
json_copy(context) ==
    [kind |-> context.kind,
     entries |-> [i \in DOMAIN context.entries |->
                    [key |-> json_loads_string(json_dumps_string(context.entries[i].key)),
                     value |-> json_loads_string(json_dumps_string(context.entries[i].value))]]]

\* len(json.dumps(context, indent=2).encode('utf-8')): "{}" or "[]" when
\* empty, else the brackets, a line of two spaces of indent per entry, the
\* commas between the entries and the last newline
RECURSIVE EntriesSize(_, _)
EntriesSize(kind, entries) ==
    IF entries = <<>> THEN 0
    ELSE 3 + (IF kind = "dict" THEN Len(json_dumps_string(Head(entries).key)) + 2 ELSE 0)
           + Len(json_dumps_string(Head(entries).value))
           + EntriesSize(kind, Tail(entries))

json_size(context) ==
    IF context.entries = <<>> THEN 2
    ELSE 2 + EntriesSize(context.kind, context.entries)
           + (Len(context.entries) - 1) + 1

\* del context_copy[list(context_copy.keys())[0]] / context_copy.pop(0),
\* replaced by the removal of the newest entry
drop_newest(entries) == SubSeq(entries, 1, Len(entries) - 1)

\* del context_copy[list(context_copy.keys())[0]] / context_copy.pop(0)
drop_oldest(entries) == Tail(entries)

\* the while loop of lines 180-196
RECURSIVE TruncateLoop(_, _)
TruncateLoop(context_copy, max_tokens) ==
    IF json_size(context_copy) > max_tokens * 4 /\ context_copy.entries # <<>>
    THEN TruncateLoop([context_copy EXCEPT !.entries = drop_oldest(@)], max_tokens)
    ELSE context_copy

\* truncate_memory_context(memory_context, max_tokens): the context of the
\* caller after the call, and the copy returned
truncate_memory_context(memory_context, max_tokens) ==
    [memory_context |-> memory_context,
     context_copy |-> TruncateLoop(json_copy(memory_context), max_tokens)]

TruncateReturn ==
    /\ last.op = "call_truncate"
    /\ LET result == truncate_memory_context(last.memory_context[1], last.max_tokens)
       IN last' = [last EXCEPT !.op = "truncate",
                               !.memory_context = Some(result.memory_context),
                               !.context_copy = Some(result.context_copy)]
    /\ UNCHANGED <<store_vars, bot_vars>>

(* --------------------------- specifications --------------------------- *)
\* the bot answering messages: overlapping generate_response calls
NextBot ==
    \/ StartOver({"c1"})
    \/ ReasoningStep
    \/ FinishStep
    \/ FailStep
    \/ TypingErrorStep

SpecBot == Init /\ [][NextBot]_vars

\* the typing indicator of two channels under overlapping calls whose
\* model calls complete and whose reasoning chains stop at the first step
NextTyping ==
    \/ StartOver(Channels)
    \/ ReasoningOver(Completions, {"none"}, {TRUE})
    \/ FinishOver(Completions)
    \/ FailStep
    \/ TypingErrorStep

SpecTyping == Init /\ [][NextTyping]_vars

\* the retry loops of the outbound calls, against every sequence of outcomes
NextRetry ==
    \/ RetryCallStep
    \/ GroqAttemptStep
    \/ SearchAttemptStep

SpecRetry == Init /\ [][NextRetry]_vars

\* the store built by add_memory_chunk calls alone, from the empty store
NextAdd == AddStep

SpecAdd == Init /\ [][NextAdd]_vars

\* the store and its retrieval: one-character chunks added for user 'a',
\* retrieval for both user ids (the second never has a collection)
NextRetrieve ==
    \/ AddOver({<<"a">>}, {ContentOfLen(1)}, Categories)
    \/ RetrieveStep

SpecRetrieve == Init /\ [][NextRetrieve]_vars

\* the store fed by memory files
NextIngest ==
    \/ AddOver(UserIds, {ContentOfLen(1), ContentOfLen(2)}, {"default"})
    \/ ProcessStep

SpecIngest == Init /\ [][NextIngest]_vars

\* the store and its persistence over restarts
NextPersist ==
    \/ AddOver(UserIds, {ContentOfLen(1), ContentOfLen(2)}, {"default"})
    \/ save_memory_state
    \/ Construct

SpecPersist == Init /\ [][NextPersist]_vars

\* the life of a chunk: one-character chunks added for user 'a', and the
\* operations that are not eviction
NextLifetime ==
    \/ AddOver({<<"a">>}, {ContentOfLen(1)}, {"default"})
    \/ ProcessOver({<<"a">>}, {<<"x", " ", "y">>})
    \/ SendOver(UserIds, {<<"x", " ", "y">>})
    \/ RetrieveOver({<<"a">>}, {None}, {MaxRetrieve}, {None})
    \/ save_memory_state

SpecLifetime == Init /\ [][NextLifetime]_vars

\* two users side by side: one-character chunks added, pruned and retrieved
\* (unfiltered, the retrieval that sorts the stored list)
NextUsers ==
    \/ AddOver(UserIds, {ContentOfLen(1)}, {"default"})
    \/ PruneStep
    \/ RetrieveOver(UserIds, {None}, {MaxRetrieve}, {None})

SpecUsers == Init /\ [][NextUsers]_vars

\* add_memory_chunk called from two threads, with non-empty contents
NextThreads ==
    \/ AddCheckStep
    \/ AddInsertStep

SpecThreads == Init /\ [][NextThreads]_vars

\* a save in progress, seen by a reader of the record files and by a
\* process that starts over the same storage_dir
NextSaveRace ==
    \/ writer.pc = "idle" /\ AddOver(UserIds, {ContentOfLen(1)}, {"default"})
    \/ save_open
    \/ save_write
    \/ save_close
    \/ ReadStep
    \/ Construct

SpecSaveRace == Init /\ [][NextSaveRace]_vars

\* split_memory_content as a function of its arguments
InitSplit ==
    /\ max_bytes \in Budgets
    /\ user_memories = <<>>
    /\ memory_index = <<>>
    /\ disk = [f \in {LogFile} |-> File(<<>>, TRUE)]
    /\ now = 1
    /\ writer = NoWriter
    /\ adding = [t \in Threads |-> NoAdd]
    /\ InitBot
    /\ \E text \in SplitTexts, max_chunk_size \in ChunkSizes :
         last = [NoCall EXCEPT !.op = "call_split", !.content = text,
                   !.max_chunk_size = max_chunk_size]

NextSplit == SplitReturn

SpecSplit == InitSplit /\ [][NextSplit]_vars

\* send_long_message on every text of the model
InitSendLong ==
    /\ max_bytes \in Budgets
    /\ user_memories = <<>>
    /\ memory_index = <<>>
    /\ disk = [f \in {LogFile} |-> File(<<>>, TRUE)]
    /\ now = 1
    /\ writer = NoWriter
    /\ adding = [t \in Threads |-> NoAdd]
    /\ InitBot
    /\ \E text \in SplitTexts :
         last = [NoCall EXCEPT !.op = "call_send_long", !.message = text,
                               !.content = text]

NextSendLong ==
    \/ SendChunk
    \/ SendLongReturn

SpecSendLong == InitSendLong /\ [][NextSendLong]_vars

\* the research memory of the web searcher as time passes
NextResearch ==
    \/ SaveResearchStep
    \/ FindResearchStep
    \/ ClockTick

SpecResearch == Init /\ [][NextResearch]_vars

\* truncate_memory_context on every context and limit of the model
InitTruncate ==
    /\ max_bytes = MaxBudget
    /\ user_memories = <<>>
    /\ memory_index = <<>>
    /\ disk = [f \in {LogFile} |-> File(<<>>, TRUE)]
    /\ now = 1
    /\ writer = NoWriter
    /\ adding = [t \in Threads |-> NoAdd]
    /\ InitBot
    /\ \E memory_context \in MemoryContexts, max_tokens \in 0..MaxTokens :
         last = [NoCall EXCEPT !.op = "call_truncate",
                               !.memory_context = Some(memory_context),
                               !.max_tokens = max_tokens]

NextTruncate == TruncateReturn

SpecTruncate == InitTruncate /\ [][NextTruncate]_vars

\* every operation of the memory store and of the bot
Next ==
    \/ AddStep
    \/ PruneStep
    \/ RetrieveStep
    \/ ProcessStep
    \/ SendStep
    \/ SplitReturn
    \/ save_memory_state
    \/ save_open
    \/ save_write
    \/ save_close
    \/ ReadStep
    \/ Construct
    \/ AddCheckStep
    \/ AddInsertStep
    \/ RetryCallStep
    \/ GroqAttemptStep
    \/ SearchAttemptStep
    \/ StartOver(Channels)
    \/ ReasoningStep
    \/ FinishStep
    \/ FailStep
    \/ TypingErrorStep
    \/ SendChunk
    \/ SendLongReturn
    \/ SaveResearchStep
    \/ FindResearchStep
    \/ ClockTick
    \/ TruncateReturn

Spec == Init /\ [][Next]_vars

(* ------------------------------- claims ------------------------------- *)
Positions(chunks) == 1..Len(chunks)

RECURSIVE SizeOfPositions(_, _)
SizeOfPositions(chunks, P) ==
    IF P = {} THEN 0
    ELSE LET i == CHOOSE i \in P : TRUE
         IN chunks[i].size + SizeOfPositions(chunks, P \ {i})

\* C1: starting from the empty store and calling only add_memory_chunk, each
\* user's total chunk size is within the budget, or the user's collection is
\* one single chunk (the most recently added) that alone exceeds the budget.
C1_TotalWithinBudget ==
    \A u \in DOMAIN user_memories :
        \/ SumSize(user_memories[u]) <= max_bytes
        \/ /\ Len(user_memories[u]) = 1
           /\ user_memories[u][1].size > max_bytes

\* position i comes before position j in the eviction order: older
\* timestamp first, equal timestamps in collection order
EvictedBefore(chunks, i, j) ==
    \/ chunks[i].timestamp < chunks[j].timestamp
    \/ chunks[i].timestamp = chunks[j].timestamp /\ i < j

IsOldestPrefix(chunks, P) ==
    \A j \in P : \A i \in Positions(chunks) : EvictedBefore(chunks, i, j) => i \in P

\* the positions the claim says are evicted to make room for new_size
IsShortestFreeingPrefix(chunks, P, new_size) ==
    /\ P \subseteq Positions(chunks)
    /\ IsOldestPrefix(chunks, P)
    /\ SizeOfPositions(chunks, P) >= new_size \/ P = Positions(chunks)
    /\ \A Q \in SUBSET P :
          (Q # P /\ IsOldestPrefix(chunks, Q)) => SizeOfPositions(chunks, Q) < new_size

\* C2: an add_memory_chunk call whose chunk would push the user's total over
\* the budget evicts exactly the shortest oldest-first prefix of the user's
\* chunks whose sizes sum to at least the new size (all chunks when there is
\* none); a call that fits the budget evicts nothing.
C2_EvictsShortestOldestPrefix ==
    [][ \A u \in UserIds :
          (last'.op = "add" /\ last'.user = u) =>
             LET before   == GetChunks(user_memories, u)
                 after    == GetChunks(user_memories', u)
                 new_size == Len(last'.content)
                 evicted  == {i \in Positions(before) :
                                 \A k \in Positions(after) : after[k].id # before[i].id}
             IN IF SumSize(before) + new_size > max_bytes
                THEN IsShortestFreeingPrefix(before, evicted, new_size)
                ELSE evicted = {} ]_vars

\* C3: eviction never raises: every add_memory_chunk call, also one on a
\* store built by load_memory_state, completes without an exception.
C3_AddNeverRaises ==
    last.op = "add" => last.raised = ""

IndexedIds(idx, u, category) ==
    IF u \in DOMAIN idx /\ category \in DOMAIN idx[u]
    THEN Range(idx[u][category]) ELSE {}

\* C4: the category index agrees with the primary collection: for every user
\* and category, the ids the index lists are exactly the ids of the user's
\* chunks of that category.
C4_IndexConsistent ==
    \A u \in DOMAIN user_memories \cup DOMAIN memory_index :
        \A category \in Categories \cup (IF u \in DOMAIN memory_index
                                         THEN DOMAIN memory_index[u] ELSE {}) :
            IndexedIds(memory_index, u, category) =
                {c.id : c \in {x \in Range(GetChunks(user_memories, u)) :
                                  x.category = category}}

\* C5: add_memory_chunk with empty content raises InvalidContentError and
\* leaves the collections and the index as they were.
C5_EmptyContentRejected ==
    [][ (last'.op = "add" /\ last'.content = <<>>) =>
           /\ last'.raised = "InvalidContentError"
           /\ user_memories' = user_memories
           /\ memory_index' = memory_index ]_vars

\* C6: every add_memory_chunk call with non-empty content ends with the new
\* chunk in the user's collection under the returned id.
C6_ChunkAlwaysAccepted ==
    (last.op = "add" /\ last.content # <<>>) =>
        /\ last.ret_id # None
        /\ \E c \in Range(GetChunks(user_memories, last.user)) :
              c.id = last.ret_id[1] /\ c.content = last.content

Triple(c) == <<c.content, c.timestamp, c.category>>
CountOf(chunks, t) == Cardinality({i \in Positions(chunks) : Triple(chunks[i]) = t})
SameTriples(xs, ys) ==
    \A t \in {Triple(c) : c \in Range(xs) \cup Range(ys)} : CountOf(xs, t) = CountOf(ys, t)

\* C7: constructing a fresh store right after save_memory_state gives every
\* saved user id the same multiset of (content, timestamp, category).
C7_SaveLoadRoundTrip ==
    [][ (last.op = "save" /\ last'.op = "construct") =>
           \A u \in DOMAIN user_memories :
              /\ u \in DOMAIN user_memories'
              /\ SameTriples(user_memories'[u], user_memories[u]) ]_vars

\* C8: retrieve_memory_chunks is read-only: the stored collections hold the
\* same chunks in the same order after the call as before it.
C8_RetrieveReadOnly ==
    [][ last'.op = "retrieve" => user_memories' = user_memories ]_vars

\* C9: in the result of retrieve_memory_chunks, a chunk that comes before
\* another has a timestamp at least as large.
C9_RetrieveMostRecentFirst ==
    last.op = "retrieve" =>
        \A i, j \in Positions(last.ret_chunks) :
            i < j => last.ret_chunks[i].timestamp >= last.ret_chunks[j].timestamp

\* a filtered retrieval returned two chunks, the newer first, that the
\* stored collection holds in the opposite order
C9_Witness ==
    /\ last.op = "retrieve"
    /\ TruthyStr(last.category)
    /\ Len(last.ret_chunks) = 2
    /\ last.ret_chunks[1].timestamp > last.ret_chunks[2].timestamp
    /\ user_memories[last.user] = <<last.ret_chunks[2], last.ret_chunks[1]>>

\* C10: retrieve_memory_chunks with a category value x, the empty string
\* included, returns no chunk of another category.
C10_CategoryIsolation ==
    (last.op = "retrieve" /\ last.category # None) =>
        \A c \in Range(last.ret_chunks) : c.category = last.category[1]
\* a chunk passes the filters retrieve_memory_chunks was given
MatchesFilters(c, category, min_timestamp) ==
    /\ category = None \/ c.category = category[1]
    /\ min_timestamp = None \/ c.timestamp >= min_timestamp[1]

\* C11: retrieve_memory_chunks returns exactly the max_chunks most recent of
\* the user's chunks that pass both the category filter and the timestamp
\* floor: min(max_chunks, number of matching chunks) of them, none older
\* than a matching chunk left out.
C11_RetrieveFiltersThenTruncates ==
    last.op = "retrieve" =>
        LET matching == {c \in Range(GetChunks(user_memories, last.user)) :
                            MatchesFilters(c, last.category, last.min_timestamp)}
            returned == Range(last.ret_chunks)
        IN /\ returned \subseteq matching
           /\ Cardinality(returned) = Len(last.ret_chunks)
           /\ Len(last.ret_chunks) = IF last.max_chunks < Cardinality(matching)
                                     THEN last.max_chunks ELSE Cardinality(matching)
           /\ \A r \in returned : \A c \in matching \ returned :
                 r.timestamp >= c.timestamp

\* C12: retrieve_memory_chunks for a user id without a collection returns
\* the empty sequence, raises nothing and creates no entry for that user in
\* the store or the index.
C12_UnknownUserRetrieval ==
    [][ (last'.op = "retrieve" /\ last'.user \notin DOMAIN user_memories) =>
           /\ last'.ret_chunks = <<>>
           /\ last'.raised = ""
           /\ user_memories' = user_memories
           /\ memory_index' = memory_index ]_vars

\* a retrieval for a user without a collection, while another user has chunks
C12_Witness ==
    /\ last.op = "retrieve"
    /\ last.user \notin DOMAIN user_memories
    /\ last.ret_chunks = <<>>
    /\ \E v \in DOMAIN user_memories : user_memories[v] # <<>>
\* the contents of the chunks the last call returned, in order
RetContents == [i \in 1..Len(last.ret_chunks) |-> last.ret_chunks[i].content]

\* the chunk content is one single word
IsSingleWord(content) == SplitWords(content, <<>>) = <<content>>

\* C13: every chunk split_memory_content produces has a content of at most
\* max_chunk_size characters, unless it consists of one single word that is
\* itself longer than max_chunk_size.
C13_ChunksWithinMaxChunkSize ==
    last.op = "split" =>
        \A i \in 1..Len(RetContents) :
            \/ Len(RetContents[i]) <= last.max_chunk_size
            \/ IsSingleWord(RetContents[i])

\* a split into several chunks, one of them holding several words and
\* filling max_chunk_size exactly
C13_Witness ==
    /\ last.op = "split"
    /\ Len(RetContents) >= 2
    /\ \E i \in 1..Len(RetContents) :
         /\ Len(RetContents[i]) = last.max_chunk_size
         /\ Len(SplitWords(RetContents[i], <<>>)) >= 2

\* the text has its words separated by single spaces and neither leading
\* nor trailing whitespace
IsSingleSpaced(text) == Join(SplitWords(text, <<>>)) = text

\* C14: for a text whose words are separated by single spaces, without
\* leading or trailing whitespace, joining the contents of the chunks of
\* split_memory_content with single spaces, in order, gives the text back.
C14_SplitJoinRoundTrip ==
    (last.op = "split" /\ IsSingleSpaced(last.content)) =>
        Join(RetContents) = last.content

\* C15: split_memory_content packs greedily: the chunks hold the words of
\* the text in their original order, the first word of a chunk would not
\* have fitted (with one separator) into the chunk before it, and
\* "a b c d e" with max_chunk_size 3 gives ["a b", "c d", "e"].
C15_GreedyPacking ==
    last.op = "split" =>
        /\ SplitWords(Join(RetContents), <<>>) = SplitWords(last.content, <<>>)
        /\ \A i \in 1..(Len(RetContents) - 1) :
             Len(RetContents[i]) + 1
               + Len(Head(SplitWords(RetContents[i + 1], <<>>)))
                 > last.max_chunk_size
        /\ (last.content = ExampleText /\ last.max_chunk_size = 3) =>
              RetContents = << <<"a", " ", "b">>, <<"c", " ", "d">>, <<"e">> >>

\* the split of "a b c d e" with max_chunk_size 3 has returned three chunks
C15_Witness ==
    /\ last.op = "split"
    /\ last.content = ExampleText
    /\ last.max_chunk_size = 3
    /\ Len(RetContents) = 3
\* the record files of the storage directory, and the user a file belongs to
StateFiles == {f \in DOMAIN disk : EndsWith(f, FileSuffix)}
OwnerOf(f) == SubSeq(f, 1, Len(f) - Len(FileSuffix))

\* C16: load_memory_state isolates failures per user: with one corrupt or
\* partially written record file among valid ones, the load completes, every
\* user with a valid file gets exactly the chunks of that file, and the user
\* of the corrupt file gets an empty collection.
C16_LoadIsolatesCorruptRecord ==
    [][ (/\ last'.op = "construct"
         /\ disk' = disk
         /\ Cardinality({f \in StateFiles : ~disk[f].complete}) = 1) =>
            /\ last'.raised = ""
            /\ \A f \in StateFiles :
                 IF disk[f].complete
                 THEN Serialized(GetChunks(user_memories', OwnerOf(f)))
                        = disk[f].records
                 ELSE GetChunks(user_memories', OwnerOf(f)) = <<>> ]_vars

\* C17: a reader that loads a record file while save_memory_state is writing
\* it gets the complete previous record or the complete new record, never
\* a parse error on a half-written file.
C17_ReaderSeesCompleteRecord ==
    (/\ last.op = "read"
     /\ writer.pc = "writing"
     /\ last.file = writer.file
     /\ writer.old # None) =>
        /\ last.raised = ""
        /\ \/ last.ret_records = writer.old[1]
           \/ last.ret_records = disk[writer.file].records \o writer.pending
\* C18: concurrent add_memory_chunk calls for one user are serialized: when
\* the calls have returned, every user's total chunk size is within the
\* budget, or the collection is one single chunk that alone exceeds it, as
\* after sequential calls.
C18_ConcurrentAddsKeepBudget ==
    (\A t \in Threads : adding[t].pc = "idle") =>
        \A u \in DOMAIN user_memories :
            \/ SumSize(user_memories[u]) <= max_bytes
            \/ Len(user_memories[u]) = 1 /\ SumSize(user_memories[u]) > max_bytes
\* the entry of a dict for a key, or None
Entry(d, k) == IF k \in DOMAIN d THEN Some(d[k]) ELSE None

\* C19: users are independent: an add_memory_chunk, prune_memory_chunks or
\* retrieve_memory_chunks call for one user leaves the collection and the
\* category index of every other user as they were, and no chunk is in the
\* collections of two users.
C19_UsersIndependent ==
    [][ /\ \A v \in UserIds :
             (last'.op \in {"add", "prune", "retrieve"} /\ last'.user # v) =>
                 /\ Entry(user_memories', v) = Entry(user_memories, v)
                 /\ Entry(memory_index', v) = Entry(memory_index, v)
        /\ \A u, v \in DOMAIN user_memories' :
             u # v => {c.id : c \in Range(user_memories'[u])}
                        \cap {c.id : c \in Range(user_memories'[v])} = {} ]_vars

\* a prune call has emptied one user's collection while another user
\* still has chunks
C19_Witness ==
    /\ last.op = "prune"
    /\ last.raised = ""
    /\ last.user \in DOMAIN user_memories
    /\ user_memories[last.user] = <<>>
    /\ \E v \in DOMAIN user_memories : v # last.user /\ user_memories[v] # <<>>
\* C20: a chunk of a user's collection stays in it until the eviction policy
\* removes it: it leaves the collection only in an add_memory_chunk or
\* prune_memory_chunks call for that user, and not by retrieval, save, file
\* processing or send_memory_to_groq.
C20_ChunksLeaveOnlyByEviction ==
    [][ \A u \in DOMAIN user_memories :
          \A c \in Range(user_memories[u]) :
             c \notin Range(GetChunks(user_memories', u)) =>
                 (last'.op \in {"add", "prune"} /\ last'.user = u) ]_vars
\* C30: split_memory_content never produces a chunk with empty content:
\* every returned chunk holds at least one word, and a text without words
\* gives no chunks.
C30_NoEmptyChunk ==
    last.op = "split" =>
        /\ \A i \in 1..Len(RetContents) : SplitWords(RetContents[i], <<>>) # <<>>
        /\ SplitWords(last.content, <<>>) = <<>> => RetContents = <<>>
\* the attempts the function of the call in progress may make
MaxRetriesOf(fn) ==
    IF fn = "call_groq_ai" THEN call_groq_ai_max_retries
    ELSE perform_web_search_max_retries

\* C21: outbound calls retry a bounded number of times: whatever the service
\* answers, call_groq_ai makes at most 100 attempts and perform_web_search
\* at most 5; a call that has not returned has attempts left, and every
\* attempt that does not return uses one of them up.
C21_BoundedRetry ==
    [][ retry'.fn # "idle" =>
          /\ retry'.attempts <= MaxRetriesOf(retry'.fn)
          /\ \/ retry'.done
             \/ /\ retry'.attempts < MaxRetriesOf(retry'.fn)
                /\ (retry.fn = retry'.fn /\ ~retry.done) =>
                       retry'.attempt > retry.attempt ]_vars

\* both calls have used up all their attempts: call_groq_ai returns the
\* sentence of line 1117 after 100 failed attempts
C21_Witness ==
    /\ retry.fn = "call_groq_ai"
    /\ retry.done
    /\ retry.attempts = call_groq_ai_max_retries
    /\ retry.result = Some(Exhausted)
(* C22: an exhausted retry sequence of call_groq_ai is never treated as the
   model's reply: its sentence is never stored in a user's memory as a bot
   message and never becomes the conclusion of a reasoning step. *)
C22_ExhaustedIsNotAReply ==
    /\ \A u \in DOMAIN user_memory : \A i \in DOMAIN user_memory[u] :
          ~(user_memory[u][i].role = "bot" /\ user_memory[u][i].content = Exhausted)
    /\ \A i \in DOMAIN reasoning_history :
          reasoning_history[i].conclusion # Exhausted

\* a call that returned the model's reply
Completed(t) ==
    /\ tasks[t].pc = "done"
    /\ tasks[t].response \notin {NoChannelMessage, TroubleMessage}

HasMessage(memory, role, content) ==
    \E i \in DOMAIN memory : memory[i].role = role /\ memory[i].content = content

(* C23: when two generate_response calls for the same user have both
   completed, the user's stored memory holds the user message and the bot
   reply of both exchanges. *)
C23_OverlappingExchangesKept ==
    \A t1, t2 \in Coroutines :
        (t1 # t2 /\ Completed(t1) /\ Completed(t2)
           /\ tasks[t1].user_id = tasks[t2].user_id)
        => \A t \in {t1, t2} :
              /\ tasks[t].user_id \in DOMAIN user_memory
              /\ HasMessage(user_memory[tasks[t].user_id], "user", tasks[t].message)
              /\ HasMessage(user_memory[tasks[t].user_id], "bot", tasks[t].response)

(* C24: the result of generate_chain_of_thoughts(q) holds the steps of this
   call only: total_steps is the number of steps the call performed, at most
   max_reasoning_steps, the steps start from q and chain, and
   final_conclusion is the conclusion of the call's last step. *)
C24_ChainResultIsOwn ==
    \A t \in Coroutines :
        tasks[t].cot_result # NoCot =>
            LET result == tasks[t].cot_result
                steps == result.reasoning_steps
            IN /\ result.total_steps = tasks[t].step
               /\ result.total_steps <= MaxReasoningSteps
               /\ Len(steps) = tasks[t].step
               /\ \A i \in DOMAIN steps :
                     steps[i].context = IF i = 1 THEN tasks[t].message
                                        ELSE steps[i - 1].conclusion
               /\ result.final_conclusion = tasks[t].current_context

(* C25: whenever a generate_response call for a channel is between its
   start_typing and its finally block, a typing task that has not been
   cancelled is registered for the channel. *)
C25_TypingContinuous ==
    \A t \in Coroutines :
        tasks[t].pc \in {"cot_wait", "groq_wait"} =>
            /\ tasks[t].channel \in DOMAIN typing_tasks
            /\ typing_tasks[tasks[t].channel] \in DOMAIN typing_loops

(* C26: every generate_response call that started typing and has returned
   has called stop_typing; once every call for a channel has returned, no
   typing task of the channel is registered or running; and the registered
   typing tasks are one per channel. *)
C26_TypingStops ==
    /\ \A t \in Coroutines :
          (tasks[t].pc = "done" /\ tasks[t].typing # "none")
          => tasks[t].typing = "stopped"
    /\ \A c \in Channels :
          (\A t \in Coroutines : tasks[t].channel = c => tasks[t].pc = "done")
          => /\ c \notin DOMAIN typing_tasks
             /\ \A l \in DOMAIN typing_loops :
                   typing_loops[l] = "running"
                   => \E d \in DOMAIN typing_tasks \ {c} : typing_tasks[d] = l
    /\ \A c, d \in DOMAIN typing_tasks :
          typing_tasks[c] = typing_tasks[d] => c = d

\* two overlapping calls of one channel have returned, one with the reply
\* and one through the except branch, and no call is left running
C26_Witness ==
    /\ \A t \in Coroutines : tasks[t].pc = "done"
    /\ \E t1, t2 \in Coroutines :
          /\ t1 # t2
          /\ tasks[t1].channel = "c1" /\ tasks[t2].channel = "c1"
          /\ Completed(t1)
          /\ tasks[t2].response = TroubleMessage
    /\ typing_tasks = <<>>
RECURSIVE Concat(_)
Concat(chunks) ==
    IF chunks = <<>> THEN <<>> ELSE Head(chunks) \o Concat(Tail(chunks))

RECURSIVE WithoutSpaces(_)
WithoutSpaces(text) ==
    IF text = <<>> THEN <<>>
    ELSE IF Head(text) = " " THEN WithoutSpaces(Tail(text))
    ELSE <<Head(text)>> \o WithoutSpaces(Tail(text))

(* C27: for a non-empty message send_long_message sends chunks of between 1
   and 2000 characters each (MessageLimit in the model), in the original
   order, whose concatenation is the message up to the whitespace removed
   at the split points. *)
C27_ChunksWithinLimit ==
    (last.op = "sent_long" /\ last.message # <<>>) =>
        /\ \A i \in DOMAIN last.sent :
              Len(last.sent[i]) >= 1 /\ Len(last.sent[i]) <= MessageLimit
        /\ WithoutSpaces(Concat(last.sent)) = WithoutSpaces(last.message)
\* the keys of a dict of the research memory
OdKeys(d) == {d[i].key : i \in DOMAIN d}

\* the topics of a research memory that have not expired at time t and are
\* similar enough to the query, in the order of the memory
RelevantTopics(memory, user_query, t) ==
    SelectSeq(memory.topics,
              LAMBDA e : /\ ~is_topic_expired(memory, e.key, t)
                         /\ calculate_query_similarity(user_query, e.value) > 50)

(* C28: a find_relevant_research call returns without raising; afterwards
   'topics' and 'last_updated' have the same keys and hold no expired topic;
   the result lists only topics that had not expired, with similarity above
   0.5, sorted by similarity descending, at most max_results of them. *)
C28_PurgesExpiredAndReturns ==
    [][(last'.op = "find_relevant_research" /\ now' = now
          /\ (last' # last \/ research_memory' # research_memory))
       => /\ last'.raised = ""
          /\ OdKeys(research_memory'.topics) = OdKeys(research_memory'.last_updated)
          /\ \A i \in DOMAIN research_memory'.topics :
                ~is_topic_expired(research_memory', research_memory'.topics[i].key, now)
          /\ Len(last'.ret_records) <= last'.max_results
          /\ \A i \in DOMAIN last'.ret_records :
                /\ last'.ret_records[i].similarity_score > 50
                /\ \E k \in DOMAIN RelevantTopics(research_memory, last'.content, now) :
                      RelevantTopics(research_memory, last'.content, now)[k].value
                         = last'.ret_records[i].query
                /\ i > 1 => last'.ret_records[i - 1].similarity_score
                              >= last'.ret_records[i].similarity_score]_vars
\* the context made of the entries of a context after its first k
SuffixFrom(context, k) ==
    [context EXCEPT !.entries = SubSeq(@, k + 1, Len(@))]

(* C29: truncate_memory_context returns, leaves the context passed in as it
   was, and returns a copy holding the longest suffix of the context's
   entries whose serialized size is at most max_tokens * 4 bytes (no entry
   when not even the empty context fits): every longer suffix is too large. *)
C29_TruncateKeepsLongestSuffix ==
    [][(last.op = "call_truncate" /\ last'.op = "truncate")
       => LET input == last.memory_context[1]
              copy == last'.context_copy[1]
              limit == last.max_tokens * 4
          IN /\ last'.memory_context = last.memory_context
             /\ \E k \in 0..Len(input.entries) :
                   /\ copy = SuffixFrom(input, k)
                   /\ json_size(copy) <= limit \/ copy.entries = <<>>
                   /\ \A j \in 0..(k - 1) : json_size(SuffixFrom(input, j)) > limit]_vars

\* a call that dropped some entries of a context and kept others
C29_Witness ==
    /\ last.op = "truncate"
    /\ last.context_copy[1].entries # <<>>
    /\ Len(last.context_copy[1].entries) < Len(last.memory_context[1].entries)
    /\ json_size(last.context_copy[1]) <= last.max_tokens * 4
====
